---- MODULE Spec2Model ----
(***************************************************************************)
(* Playback and scan state of the two slideshow programs of image_show:    *)
(* the PySide6 program (src/src/main.py, SlideshowWindow) and the pygame   *)
(* program (src/old/main.py, ImagePlayer).  A behaviour runs one of the    *)
(* two programs (variable variant); the other program's fields keep their  *)
(* values.  Indices are 0-based as in the Python code; TLA+ sequences are  *)
(* 1-based, so images[current_index] of the code is                        *)
(* images[current_index + 1] here.                                         *)
(***************************************************************************)
EXTENDS Integers, Sequences, FiniteSets, TLC

\* Number of distinct image paths that can exist in the folder.  A path is
\* the number giving its rank in lexicographic path order.
MaxPaths == 3

\* Number of nested show/skip calls the interpreter allows before it raises
\* RecursionError (stands for Python's recursion limit; larger than MaxPaths).
MaxDepth == 4

Paths == 1..MaxPaths

\* None: no pixmap / no surface.
NoImage == 0

\* No scaling and no folder traversal is being computed.
NoCalc == [op |-> "none"]

VARIABLES
    variant,              \* which program runs: "pyside6" or "pygame"
    decodable,            \* the paths Image.open can decode
    \* ---- SlideshowWindow (src/src/main.py)
    images,               \* self.images
    current_index,        \* self.current_index
    is_random,            \* self.is_random
    play_timer,           \* self.play_timer.isActive()
    current_pixmap,       \* self.image_viewer.current_pixmap (a path or NoImage)
    scale_mode,           \* self.image_viewer.scale_mode (a Python str, as its repr)
    \* ---- ImagePlayer / ImageLoader (src/old/main.py)
    image_files,          \* image_loader.image_files
    current_image_index,  \* self.current_image_index
    random_order,         \* config.random_order
    auto_restart,         \* config.auto_restart
    current_surface,      \* self.current_surface (a path or NoImage)
    \* ---- observation of the last handler that ran
    lastOp,               \* [op |-> handler name, found |-> len of a delivered scan or -1]
    tries,                \* decode attempts (set_image / _load_image calls) of the last handler
    failed,               \* index of the last handler's most recent failed decode, or -1
    error,                \* exception the last handler ended with, or "none"
    \* ---- the folder and the scans in progress
    disk,                 \* the image files now in the folder
    scanners,             \* the ImageScanner threads inside run(), in start order
    scanner_busy,         \* the thread self.scanner refers to is inside run()
    scan_signals,         \* scan_complete signals queued for the window, oldest first
    aborted,              \* the process was aborted by Qt
    old_scanning,         \* pygame: the handler now inside _scan_images, or "no"
    \* ---- Config (both programs)
    config,               \* the settings in memory: key -> Python value
    config_file,          \* the JSON config file on disk
    writable,             \* writes to the config file succeed
    \* ---- the computation under study (scaling, folder traversal)
    calc                  \* its inputs and its result, or NoCalc

scanVars == <<disk, scanners, scanner_busy, scan_signals, aborted, old_scanning>>

\* What the playback handlers do not touch.
cfgVars == <<config, config_file, writable>>

envVars == <<scanVars, cfgVars>>

vars == <<variant, decodable, images, current_index, is_random, play_timer,
          current_pixmap, scale_mode, image_files,
          current_image_index, random_order, auto_restart, current_surface,
          lastOp, tries, failed, error, envVars, calc>>

qtVars == <<images, current_index, is_random, play_timer, current_pixmap,
            scale_mode>>

oldVars == <<image_files, current_image_index, random_order, auto_restart,
             current_surface>>

(***************************************************************************)
(* Lists of paths                                                          *)
(***************************************************************************)
Range(s) == {s[i] : i \in 1..Len(s)}

\* All orderings of the set S, each element once.
PermsOfSet(S) ==
    {s \in [1..Cardinality(S) -> S] : \A i, j \in 1..Cardinality(S) : s[i] = s[j] => i = j}

\* s reordered by the permutation p of its positions.
Reorder(s, p) == [i \in 1..Len(s) |-> s[p[i]]]

\* Every list a scan can deliver: each path at most once, any order.
Lists == UNION {PermsOfSet(S) : S \in SUBSET Paths}

IsSorted(s) == \A i, j \in 1..Len(s) : i < j => s[i] < s[j]

\* Every list the pygame scan can deliver: deduplicated and sorted.
SortedLists == {s \in Lists : IsSorted(s)}

\* list[i] of Python, i counted from 0; a negative i counts from the end.
At(s, i) == IF i < 0 THEN s[Len(s) + i + 1] ELSE s[i + 1]

\* list[i] raises IndexError.
OutOfRange(s, i) == i >= Len(s) \/ i < -Len(s)

\* Count of positions of s holding p.
Count(s, p) == Cardinality({i \in 1..Len(s) : s[i] = p})

IsPermutation(s, t) ==
    /\ Len(s) = Len(t)
    /\ \A p \in Range(s) \cup Range(t) : Count(s, p) = Count(t, p)

\* random.shuffle(list) with a faulty draw: positions drawn with replacement.
ShuffleWithReplacement(s) == {Reorder(s, p) : p \in [1..Len(s) -> 1..Len(s)]}

\* The permutations of the positions of a list of length n.
PositionPerms == [n \in 0..MaxPaths |-> Permutations(1..n)]

\* random.shuffle(list): any reordering of the list, the identity included.
\* A shuffle that loses the last element.
ShuffleLosing(s) ==
    {SubSeq(Reorder(s, p), 1, Len(s) - 1) : p \in PositionPerms[Len(s)]}

Shuffle(s) == {Reorder(s, p) : p \in PositionPerms[Len(s)]}

\* list.sort() on path strings: ascending lexicographic order.
Sort(s) == SortSeq(s, LAMBDA a, b : a < b)

(***************************************************************************)
(* SlideshowWindow (PySide6)                                               *)
(***************************************************************************)
IsQt == variant = "pyside6"

\* next_image without the wraparound.
NextIndexNoWrap(i, n) == i + 1

\* next_image that stays where it is.
NextIndexStay(i, n) == i

\* next_image, sequential branch: (current_index + 1) % len(images).
NextIndex(i, n) == (i + 1) % n

\* prev_image without the wraparound.
PrevIndexNoWrap(i, n) == i - 1

\* prev_image, sequential branch: (current_index - 1) % len(images).
PrevIndex(i, n) == (i - 1) % n

\* The indices next_image may move to from index i.
NextChoices(imgs, i, rnd) ==
    IF rnd THEN 0..(Len(imgs) - 1)           \* random.randint(0, len - 1)
    ELSE {NextIndex(i, Len(imgs))}

\* What a call chain starting in show_current_image leaves behind.
Outcome(i, pix, n, f, err) ==
    [current_index |-> i, pixmap |-> pix, tries |-> n, failed |-> f, error |-> err]

\* One failed decode at index f above the outcome o of the nested call.
AfterFailure(f, o) ==
    [o EXCEPT !.tries = @ + 1, !.failed = IF @ = -1 THEN f ELSE @]

\* show_current_image with self.current_index drawn from the set I, the
\* viewer holding pix and `fuel` nested calls left.  A failed decode calls
\* next_image, which moves the index and calls show_current_image again;
\* nothing bounds the chain but the interpreter's recursion limit.  The
\* result is the set of outcomes (several when the index is drawn at
\* random).  In random mode the index next_image draws does not depend on
\* the index that failed, so the nested call is evaluated once for all of I.
RECURSIVE show_current_image(_, _, _, _, _)
show_current_image(imgs, I, rnd, pix, fuel) ==
    IF imgs = <<>> THEN {Outcome(i, pix, 0, -1, "none") : i \in I}
    ELSE IF fuel = 0 THEN {Outcome(i, pix, 0, -1, "RecursionError") : i \in I}
    ELSE LET outside == {i \in I : OutOfRange(imgs, i)}
             inside == I \ outside
             good == {i \in inside : At(imgs, i) \in decodable}
             bad == inside \ good
         IN  {Outcome(i, pix, 0, -1, "IndexError") : i \in outside}
             \cup {Outcome(i, At(imgs, i), 1, -1, "none") : i \in good}
             \cup (IF bad = {} THEN {}
                   ELSE IF rnd
                   THEN LET nested == show_current_image(
                                imgs, NextChoices(imgs, 0, rnd), rnd, pix, fuel - 1)
                        IN  {AfterFailure(f, o) : f \in bad, o \in nested}
                   ELSE UNION {{AfterFailure(f, o) :
                                  o \in show_current_image(
                                      imgs, NextChoices(imgs, f, rnd), rnd, pix, fuel - 1)} :
                               f \in bad})

\* The bookkeeping every handler ends with.
Observe(op, found, n, f, err) ==
    /\ lastOp' = [op |-> op, found |-> found]
    /\ tries' = n
    /\ failed' = f
    /\ error' = err

\* A handler that ends in show_current_image on catalog imgs, the index
\* being any of I.
ShowFrom(op, imgs, I, rnd) ==
    \E o \in show_current_image(imgs, I, rnd, current_pixmap, MaxDepth) :
        /\ current_index' = o.current_index
        /\ current_pixmap' = o.pixmap
        \* set_image(image_path, scale_mode) stores the configured mode
        /\ scale_mode' = IF o.tries > 0 THEN config["scale_mode"] ELSE scale_mode
        /\ Observe(op, -1, o.tries, o.failed, o.error)

\* on_scan_complete restarting playback on every non-empty completion.
on_scan_complete_restart(found) ==
    IF found = <<>>
       THEN /\ play_timer' = FALSE
            /\ Observe("on_scan_complete", 0, 0, -1, "none")
            /\ UNCHANGED <<images, current_index, current_pixmap, scale_mode>>
       ELSE /\ images' = found
            /\ current_index' = 0
            /\ current_pixmap' = current_pixmap
            /\ scale_mode' = scale_mode
            /\ play_timer' = TRUE
            /\ Observe("on_scan_complete", Len(found), 0, -1, "none")

\* on_scan_complete(found): the slot run for a scanner's scan_complete signal.
on_scan_complete(found) ==
    IF found = <<>>
       THEN /\ play_timer' = FALSE
            /\ Observe("on_scan_complete", 0, 0, -1, "none")
            /\ UNCHANGED <<images, current_index, current_pixmap, scale_mode>>
       ELSE \E new \in (IF is_random THEN Shuffle(found) ELSE {found}) :
            /\ images' = new
            /\ IF Len(images) = 0                       \* old_count == 0
               THEN \E o \in show_current_image(new, {0}, is_random, current_pixmap, MaxDepth) :
                      /\ current_index' = o.current_index
                      /\ current_pixmap' = o.pixmap
                      /\ scale_mode' = IF o.tries > 0 THEN config["scale_mode"]
                                       ELSE scale_mode
                      \* play_timer.start() follows show_current_image()
                      /\ play_timer' = IF o.error = "none" THEN TRUE ELSE play_timer
                      /\ Observe("on_scan_complete", Len(found), o.tries, o.failed, o.error)
               ELSE /\ Observe("on_scan_complete", Len(found), 0, -1, "none")
                    /\ UNCHANGED <<current_index, current_pixmap, scale_mode,
                                   play_timer>>

\* A scanner thread started by start_scan (from __init__, the scan timer or
\* Key_S) has finished and its scan_complete signal is delivered.
ScanComplete ==
    /\ IsQt
    \* The order of the delivered list is the directory's, any order; in
    \* random mode the shuffle that follows makes one order per file set enough.
    /\ \E found \in (IF is_random THEN SortedLists ELSE Lists) :
            on_scan_complete(found)
    /\ UNCHANGED <<variant, decodable, is_random>>
    /\ UNCHANGED oldVars
    /\ UNCHANGED envVars
    /\ UNCHANGED calc

\* next_image
next_image(op) ==
    /\ IsQt
    /\ IF images = <<>>
       THEN /\ Observe(op, -1, 0, -1, "none")
            /\ UNCHANGED <<current_index, current_pixmap, scale_mode>>
       ELSE ShowFrom(op, images, NextChoices(images, current_index, is_random),
                     is_random)
    /\ UNCHANGED <<variant, decodable, images, is_random, play_timer>>
    /\ UNCHANGED oldVars
    /\ UNCHANGED envVars
    /\ UNCHANGED calc

\* Key_Space / Key_Right -> next_image
KeyRight == next_image("next_image")

\* play_timer.timeout -> next_image
PlayTimerTimeout == play_timer /\ next_image("next_image")

\* Key_Left -> prev_image
KeyLeft ==
    /\ IsQt
    /\ IF images = <<>>
       THEN /\ Observe("prev_image", -1, 0, -1, "none")
            /\ UNCHANGED <<current_index, current_pixmap, scale_mode>>
       ELSE ShowFrom("prev_image", images,
                     {IF is_random THEN current_index
                      ELSE PrevIndex(current_index, Len(images))},
                     is_random)
    /\ UNCHANGED <<variant, decodable, images, is_random, play_timer>>
    /\ UNCHANGED oldVars
    /\ UNCHANGED envVars
    /\ UNCHANGED calc

(***************************************************************************)
(* Config (both programs): the settings in memory and the JSON config file *)
(***************************************************************************)
\* A key a dict, an object or a file does not have.
Missing == "<missing>"

\* The settings followed.  PySide6, keys of DEFAULT_CONFIG: "random" (bool),
\* "scale_mode" (str), "extensions" (list), "show_info", "show_clock" (bool).  pygame, attributes set by
\* Config.__init__: "interval" (float), "background_color" (tuple),
\* "valid_extensions" (set); "save_to_file" is a method of the class, which
\* hasattr finds too.  "foo" is a key neither program knows.  (pygame's
\* random_order and auto_restart are followed by their own variables.)
QtKeys == {"random", "scale_mode", "extensions", "show_info", "show_clock"}

OldKeys == {"interval", "background_color", "valid_extensions"}

OldMethods == {"save_to_file"}

CfgKeys == QtKeys \cup OldKeys \cup OldMethods \cup {"foo"}

\* Python values are written as their repr, JSON values as their text.
DEFAULT_CONFIG ==
    [k \in CfgKeys |->
        CASE k = "random" -> "True"
          [] k = "scale_mode" -> "'fit'"
          [] k = "extensions" -> "['.jpg']"
          [] k = "show_info" -> "True"
          [] k = "show_clock" -> "True"
          [] OTHER -> Missing]

\* Config.__init__ of the pygame program.
Config_init ==
    [k \in CfgKeys |->
        CASE k = "interval" -> "5.0"
          [] k = "background_color" -> "(0, 0, 0)"
          [] k = "valid_extensions" -> "{'.jpg'}"
          [] k = "save_to_file" -> "<bound method>"
          [] OTHER -> Missing]

PyBool(b) == IF b THEN "True" ELSE "False"

\* not v
PyNot(v) == PyBool(v \in {"False", "None", "0", "''", "[]"})

\* json.dump of a value it cannot serialise raises TypeError.
NotSerializable == "TypeError"

\* json.dumps of one Python value: tuples and lists become arrays, a set is
\* not serialisable; numbers keep their text.
dumps(v) ==
    CASE v = "True" -> "true"
      [] v = "False" -> "false"
      [] v = "'fit'" -> "\"fit\""
      [] v = "'fill'" -> "\"fill\""
      [] v = "'stretch'" -> "\"stretch\""
      [] v = "'zoom'" -> "\"zoom\""
      [] v = "['.jpg']" -> "[\".jpg\"]"
      [] v = "(0, 0, 0)" -> "[0, 0, 0]"
      [] v = "[0, 0, 0]" -> "[0, 0, 0]"
      [] v = "(255, 255, 255)" -> "[255, 255, 255]"
      [] v = "[255, 255, 255]" -> "[255, 255, 255]"
      [] v = "{'.jpg'}" -> NotSerializable
      [] OTHER -> v

\* json.loads of one JSON value: arrays become lists.
loads(j) ==
    CASE j = "true" -> "True"
      [] j = "false" -> "False"
      [] j = "\"fit\"" -> "'fit'"
      [] j = "\"fill\"" -> "'fill'"
      [] j = "\"stretch\"" -> "'stretch'"
      [] j = "\"zoom\"" -> "'zoom'"
      [] j = "[\".jpg\"]" -> "['.jpg']"
      [] OTHER -> j

\* isinstance(v, list), isinstance(v, tuple), callable(v)
IsList(v) == v \in {"[0, 0, 0]", "[255, 255, 255]", "['.jpg']"}

IsTuple(v) == v \in {"(0, 0, 0)", "(255, 255, 255)"}

callable(v) == v = "<bound method>"

\* tuple(v) of a list, list(v) of a tuple
tuple_of(v) ==
    CASE v = "[0, 0, 0]" -> "(0, 0, 0)"
      [] v = "[255, 255, 255]" -> "(255, 255, 255)"
      [] v = "['.jpg']" -> "('.jpg',)"
      [] OTHER -> v

list_of(v) ==
    CASE v = "(0, 0, 0)" -> "[0, 0, 0]"
      [] v = "(255, 255, 255)" -> "[255, 255, 255]"
      [] OTHER -> v

\* The config file: absent; present but not JSON (also: truncated by a
\* failed write); JSON that is not an object; a path that cannot be opened
\* (a directory); or a JSON object, key -> JSON value.
NoData == [k \in CfgKeys |-> Missing]

AbsentFile == [kind |-> "absent", data |-> NoData]

InvalidFile == [kind |-> "invalid", data |-> NoData]

ArrayFile == [kind |-> "array", data |-> NoData]

UnreadableFile == [kind |-> "unreadable", data |-> NoData]

ObjectFile(d) == [kind |-> "object", data |-> d]

\* json.dump(d, f) into the file just opened for writing (and so emptied):
\* the object, or a truncated file if a value is not serialisable.
Dumped(d) ==
    IF \E k \in CfgKeys : d[k] # Missing /\ dumps(d[k]) = NotSerializable
    THEN InvalidFile
    ELSE ObjectFile([k \in CfgKeys |->
                        IF d[k] = Missing THEN Missing ELSE dumps(d[k])])

\* open(path, 'w') and json.dump(d, f): what the file can be afterwards.
\* A write that fails leaves the file as it was (open failed) or truncated.
Written(file, d) ==
    IF file.kind = "unreadable" THEN {file}
    ELSE IF writable THEN {Dumped(d)}
    ELSE {file, InvalidFile}

\* Config.load (PySide6): {**DEFAULT_CONFIG, **loaded}; any exception (not
\* JSON, not an object, cannot be opened) gives the defaults.
Config_load(file) ==
    IF file.kind = "object"
    THEN [k \in CfgKeys |->
            IF file.data[k] # Missing THEN loads(file.data[k])
            ELSE DEFAULT_CONFIG[k]]
    ELSE DEFAULT_CONFIG

\* Config.set without the save.
Config_set_unsaved(key, value) ==
    /\ config' = [config EXCEPT ![key] = value]
    /\ UNCHANGED <<config_file, writable>>

\* Config.set (PySide6): self.config[key] = value; self.save().  save
\* catches every exception.
Config_set(key, value) ==
    /\ config' = [config EXCEPT ![key] = value]
    /\ config_file' \in Written(config_file, config')
    /\ writable' = writable

\* Config.load_from_file (pygame): a key of the file is applied if the
\* object has an attribute of that name; a list for background_color
\* becomes a tuple.
load_from_file(file) ==
    IF file.kind = "object"
    THEN [k \in CfgKeys |->
            IF file.data[k] # Missing /\ Config_init[k] # Missing   \* hasattr
            THEN IF k = "background_color" /\ IsList(loads(file.data[k]))
                 THEN tuple_of(loads(file.data[k]))
                 ELSE loads(file.data[k])
            ELSE Config_init[k]]
    ELSE Config_init

\* Config.save_to_file (pygame): the dict it builds from dir(self): the
\* attributes that are not callable, a tuple colour as a list.
save_data(cfg) ==
    [k \in CfgKeys |->
        IF cfg[k] = Missing \/ callable(cfg[k]) THEN Missing
        ELSE IF k = "background_color" /\ IsTuple(cfg[k]) THEN list_of(cfg[k])
        ELSE cfg[k]]

\* Key_R -> toggle_random
KeyR ==
    /\ IsQt
    /\ is_random' = ~is_random
    /\ Config_set("random", PyBool(~is_random))
    /\ \E new \in (IF ~is_random THEN Shuffle(images) ELSE {images}) :
        /\ images' = new
        /\ ShowFrom("toggle_random", new, {current_index}, ~is_random)
    /\ UNCHANGED <<variant, decodable, play_timer>>
    /\ UNCHANGED oldVars
    /\ UNCHANGED scanVars
    /\ UNCHANGED calc

\* Key_P that only ever stops the timer.
KeyPStopOnly ==
    /\ IsQt
    /\ play_timer' = FALSE
    /\ Observe("Key_P", -1, 0, -1, "none")
    /\ UNCHANGED <<variant, decodable, images, current_index, is_random,
                   current_pixmap, scale_mode>>
    /\ UNCHANGED oldVars
    /\ UNCHANGED envVars
    /\ UNCHANGED calc

\* Key_P: pause / resume
KeyP ==
    /\ IsQt
    /\ play_timer' = ~play_timer
    /\ Observe("Key_P", -1, 0, -1, "none")
    /\ UNCHANGED <<variant, decodable, images, current_index, is_random,
                   current_pixmap, scale_mode>>
    /\ UNCHANGED oldVars
    /\ UNCHANGED envVars
    /\ UNCHANGED calc

(***************************************************************************)
(* ImagePlayer / ImageLoader (pygame)                                      *)
(***************************************************************************)
IsOld == variant = "pygame"

\* _load_next_image skipping two places on a failed decode.
OldSkipTwo(i, n) == (i + 2) % n

\* _load_next_image, failed decode: (current_image_index + 1) % len(image_files).
OldSkipIndex(i, n) == (i + 1) % n

OldOutcome(i, surf, n, f, err) ==
    [current_image_index |-> i, surface |-> surf, tries |-> n, failed |-> f, error |-> err]

\* _load_next_image with self.current_image_index = i and `fuel` nested calls
\* left.  The recursive call sits inside the try block, so the
\* RecursionError of an exhausted stack is caught there: the surface is
\* dropped and the calls return.
RECURSIVE _load_next_image(_, _, _)
_load_next_image(files, i, fuel) ==
    IF files = <<>> THEN OldOutcome(i, NoImage, 0, -1, "none")
    ELSE IF fuel = 0 THEN OldOutcome(i, NoImage, 0, -1, "RecursionError")
    ELSE LET k == IF i >= Len(files) THEN 0 ELSE i IN
         IF At(files, k) \in decodable
         THEN OldOutcome(k, At(files, k), 1, -1, "none")
         ELSE LET o == _load_next_image(files, OldSkipIndex(k, Len(files)), fuel - 1)
              IN  [o EXCEPT !.tries = @ + 1, !.failed = IF @ = -1 THEN k ELSE @]

\* A handler that ends in _load_next_image on files from index i.
LoadFrom(op, found, files, i) ==
    LET o == _load_next_image(files, i, MaxDepth) IN
        /\ current_image_index' = o.current_image_index
        /\ current_surface' = o.surface
        /\ Observe(op, found, o.tries, o.failed, o.error)

\* _next_image
_next_image(op) ==
    /\ IsOld
    /\ IF image_files = <<>>
       THEN /\ Observe(op, -1, 0, -1, "none")
            /\ UNCHANGED <<image_files, current_image_index, current_surface>>
       ELSE IF current_image_index + 1 >= Len(image_files)
            THEN \E new \in (IF random_order /\ auto_restart
                             THEN Shuffle(image_files) ELSE {image_files}) :
                    /\ image_files' = new
                    /\ LoadFrom(op, -1, new, 0)
            ELSE /\ image_files' = image_files
                 /\ LoadFrom(op, -1, image_files, current_image_index + 1)
    /\ UNCHANGED <<variant, decodable, random_order, auto_restart>>
    /\ UNCHANGED qtVars
    /\ UNCHANGED envVars
    /\ UNCHANGED calc

\* K_SPACE / K_RIGHT -> _next_image
OldKeyRight == _next_image("next_image")

\* _update: the interval has elapsed while a surface is shown -> _next_image
OldAutoAdvance == current_surface # NoImage /\ _next_image("next_image")

\* K_LEFT -> _prev_image
OldKeyLeft ==
    /\ IsOld
    /\ IF image_files = <<>>
       THEN /\ Observe("prev_image", -1, 0, -1, "none")
            /\ UNCHANGED <<current_image_index, current_surface>>
       ELSE LoadFrom("prev_image", -1, image_files,
                     IF current_image_index - 1 < 0 THEN Len(image_files) - 1
                     ELSE current_image_index - 1)
    /\ UNCHANGED <<variant, decodable, image_files, random_order, auto_restart>>
    /\ UNCHANGED qtVars
    /\ UNCHANGED envVars
    /\ UNCHANGED calc

\* K_r -> _toggle_random_order
OldKeyR ==
    /\ IsOld
    /\ random_order' = ~random_order
    /\ IF image_files = <<>>
       THEN /\ Observe("toggle_random", -1, 0, -1, "none")
            /\ UNCHANGED <<image_files, current_image_index, current_surface>>
       ELSE \E new \in (IF ~random_order THEN Shuffle(image_files)
                        ELSE {Sort(image_files)}) :
                /\ image_files' = new
                /\ LoadFrom("toggle_random", -1, new, 0)
    /\ UNCHANGED <<variant, decodable, auto_restart>>
    /\ UNCHANGED qtVars
    /\ UNCHANGED envVars
    /\ UNCHANGED calc

\* K_s once _scan_images has found the list `found`: back to the first image.
KeySFound(found) ==
    /\ image_files' = found
    /\ IF found # <<>>
       THEN LoadFrom("Key_S", Len(found), found, 0)
       ELSE /\ Observe("Key_S", 0, 0, -1, "none")
            /\ UNCHANGED <<current_image_index, current_surface>>
    /\ UNCHANGED <<variant, decodable, random_order, auto_restart>>

\* K_s: _scan_images on the event thread, then back to the first image.
OldKeyS ==
    /\ IsOld
    /\ \E found \in SortedLists : KeySFound(found)
    /\ UNCHANGED qtVars
    /\ UNCHANGED envVars
    /\ UNCHANGED calc

\* _update: the rescan interval has elapsed -> rescan_if_needed on the event
\* thread; the index is reset only when it fell off the new list.
RescanFound(found) ==
    /\ image_files' = found
    /\ IF found # <<>> /\ current_image_index >= Len(found)
       THEN LoadFrom("rescan", Len(found), found, 0)
       ELSE /\ Observe("rescan", Len(found), 0, -1, "none")
            /\ UNCHANGED <<current_image_index, current_surface>>
    /\ UNCHANGED <<variant, decodable, random_order, auto_restart>>

OldRescan ==
    /\ IsOld
    /\ \E found \in SortedLists : RescanFound(found)
    /\ UNCHANGED qtVars
    /\ UNCHANGED envVars
    /\ UNCHANGED calc

(***************************************************************************)
(* The two programs                                                        *)
(***************************************************************************)
\* No scan in progress, the folder empty.
ScanIdle ==
    /\ disk = {}
    /\ scanners = <<>>
    /\ scanner_busy = FALSE
    /\ scan_signals = <<>>
    /\ aborted = FALSE
    /\ old_scanning = "no"

\* PySide6: the config file is the one an earlier run wrote, holding the
\* mode the window starts in; it can be written.
ConfigKept ==
    /\ config = [DEFAULT_CONFIG EXCEPT !["random"] = PyBool(is_random)]
    /\ config_file = Dumped(config)
    /\ writable = TRUE

\* pygame: no config file, the settings of Config.__init__.
OldConfigKept ==
    /\ config = Config_init
    /\ config_file = AbsentFile
    /\ writable = TRUE

\* SlideshowWindow.__init__: empty catalog, index 0, the mode of the config,
\* play timer not started.
WindowConstructed ==
    /\ variant = "pyside6"
    /\ calc = NoCalc
    /\ images = <<>>
    /\ current_index = 0
    /\ is_random \in BOOLEAN
    /\ play_timer = FALSE
    /\ current_pixmap = NoImage
    /\ scale_mode = "'fit'"
    /\ image_files = <<>>
    /\ current_image_index = 0
    /\ random_order = FALSE
    /\ auto_restart = FALSE
    /\ current_surface = NoImage
    /\ lastOp = [op |-> "__init__", found |-> -1]
    /\ tries = 0
    /\ failed = -1
    /\ error = "none"

\* The PySide6 program, the first scan started.
InitQt ==
    \* SlideshowWindow never compares paths, so which paths fail to decode
    \* matters only up to renaming: the undecodable ones are the last ones.
    /\ decodable \in {1..k : k \in 0..MaxPaths}
    /\ WindowConstructed
    /\ ScanIdle
    /\ ConfigKept

\* ImagePlayer.__init__ when ImageLoader.__init__ has scanned `files`:
\* _load_next_image from index 0.
PlayerConstructed(files) ==
    /\ variant = "pygame"
    /\ calc = NoCalc
    /\ random_order \in BOOLEAN
    /\ auto_restart \in BOOLEAN
    /\ image_files = files
    /\ LET o == _load_next_image(files, 0, MaxDepth) IN
        /\ current_image_index = o.current_image_index
        /\ current_surface = o.surface
        /\ tries = o.tries
        /\ failed = o.failed
        /\ error = o.error
    /\ lastOp = [op |-> "__init__", found |-> Len(files)]
    /\ images = <<>>
    /\ current_index = 0
    /\ is_random = FALSE
    /\ play_timer = FALSE
    /\ current_pixmap = NoImage
    /\ scale_mode = "'fit'"

\* The pygame program.
InitOld ==
    /\ decodable \in SUBSET Paths
    /\ \E files \in SortedLists : PlayerConstructed(files)
    /\ ScanIdle
    /\ OldConfigKept

Init == InitQt \/ InitOld

Next ==
    \/ ScanComplete
    \/ KeyRight
    \/ PlayTimerTimeout
    \/ KeyLeft
    \/ KeyR
    \/ KeyP
    \/ OldKeyRight
    \/ OldAutoAdvance
    \/ OldKeyLeft
    \/ OldKeyR
    \/ OldKeyS
    \/ OldRescan

Spec == Init /\ [][Next]_vars

(***************************************************************************)
(* The folder and the scans: ImageScanner threads (PySide6), _scan_images  *)
(* on the event thread (pygame)                                            *)
(***************************************************************************)
\* Number of image files that can exist in the scanned folder.
MaxFiles == 1

\* Number of scans that can be in progress at once before further requests
\* are held back.
MaxWorkers == 2

ScanFiles == 1..MaxFiles

\* The paths of S in ascending order.
RECURSIVE SortedList(_)
SortedList(S) ==
    IF S = {} THEN <<>>
    ELSE LET m == CHOOSE x \in S : \A y \in S : x <= y
         IN  <<m>> \o SortedList(S \ {m})

\* s without its i-th element.
RemoveAt(s, i) == [j \in 1..(Len(s) - 1) |-> IF j < i THEN s[j] ELSE s[j + 1]]

\* An ImageScanner just started: run() has not listed the folder yet.
\* (overtaken: a scanner started later has already emitted its result.)
NewScanner ==
    [phase |-> "started", todo |-> {}, images |-> <<>>, overtaken |-> FALSE]

\* The scanners when scanner i emits: those started before it are overtaken.
Overtake(s, i) ==
    [j \in 1..Len(s) |-> IF j < i THEN [s[j] EXCEPT !.overtaken = TRUE] ELSE s[j]]

\* Scans started and not yet handed to on_scan_complete.
InFlight == Len(scanners) + Len(scan_signals)

Alive == ~aborted

\* start_scan: a new ImageScanner is created, assigned to self.scanner and
\* started, whether or not an earlier one is still running.  If the thread
\* self.scanner referred to (the last of scanners) is still running when the
\* reference is dropped, it either lives on or is destroyed while running,
\* at which Qt aborts the process.
start_scan(op) ==
    /\ IsQt /\ Alive
    /\ InFlight < MaxWorkers
    /\ \/ /\ scanners' = Append(scanners, NewScanner)
          /\ scanner_busy' = TRUE
          /\ aborted' = aborted
       \/ /\ scanner_busy
          /\ UNCHANGED <<scanners, scanner_busy>>
          /\ aborted' = TRUE
    /\ Observe(op, -1, 0, -1, "none")
    /\ UNCHANGED <<variant, decodable, disk, scan_signals, old_scanning>>
    /\ UNCHANGED cfgVars
    /\ UNCHANGED calc
    /\ UNCHANGED qtVars
    /\ UNCHANGED oldVars

\* scan_timer.timeout -> start_scan
ScanTimerTimeout == start_scan("start_scan")

\* Key_S -> start_scan
KeyS == start_scan("start_scan")

\* What a step of a scanner thread leaves alone: everything of the window.
ScannerFrame ==
    /\ UNCHANGED <<variant, decodable, lastOp, tries, failed, error>>
    /\ UNCHANGED qtVars
    /\ UNCHANGED oldVars
    /\ UNCHANGED <<disk, aborted, old_scanning>>
    /\ UNCHANGED cfgVars
    /\ UNCHANGED calc

\* A scanner thread still inside run() stays so.
StillRunning == scanner_busy' = scanner_busy

\* ImageScanner.run: folder.glob lists the directory.  A folder that does
\* not exist is a folder without paths: run emits the empty list.
ScannerList ==
    /\ IsQt /\ Alive
    /\ \E i \in 1..Len(scanners) :
        /\ scanners[i].phase = "started"
        /\ scanners' = [scanners EXCEPT ![i].phase = "listing", ![i].todo = disk]
    /\ scan_signals' = scan_signals
    /\ StillRunning
    /\ ScannerFrame

\* A visit with the thread's own list written through to the window's catalog.
ScannerVisitShared(i) ==
    LET w == scanners[i]
        p == CHOOSE x \in w.todo : \A y \in w.todo : x <= y
        grown == IF p \in disk THEN Append(w.images, p) ELSE w.images
    IN  /\ w.phase = "listing"
        /\ w.todo # {}
        /\ scanners' = [scanners EXCEPT ![i].todo = w.todo \ {p}, ![i].images = grown]
        /\ scan_signals' = scan_signals
        /\ StillRunning
        /\ images' = grown
        /\ UNCHANGED <<variant, decodable, lastOp, tries, failed, error>>
        /\ UNCHANGED <<current_index, is_random, play_timer, current_pixmap,
                       scale_mode>>
        /\ UNCHANGED oldVars
        /\ UNCHANGED <<disk, aborted, old_scanning>>
        /\ UNCHANGED cfgVars
        /\ UNCHANGED calc

\* ImageScanner.run, one turn of the loop: the next listed path is appended
\* to the thread's local list if it still is a file.
ScannerVisit(i) ==
    LET w == scanners[i]
        p == CHOOSE x \in w.todo : \A y \in w.todo : x <= y
    IN  /\ w.phase = "listing"
        /\ w.todo # {}
        /\ scanners' = [scanners EXCEPT
                            ![i].todo = w.todo \ {p},
                            ![i].images = IF p \in disk THEN Append(w.images, p)
                                          ELSE w.images]
        /\ scan_signals' = scan_signals
        /\ StillRunning
        /\ ScannerFrame

ScannerStep == IsQt /\ Alive /\ \E i \in 1..Len(scanners) : ScannerVisit(i)

\* ImageScanner.run: the loop is done, scan_complete.emit(images) queues the
\* list for the window's thread and the thread ends.
ScannerEmit ==
    /\ IsQt /\ Alive
    /\ \E i \in 1..Len(scanners) :
        /\ scanners[i].phase = "listing"
        /\ scanners[i].todo = {}
        \* (stale: the signal of a scanner that was overtaken)
        /\ scan_signals' = Append(scan_signals,
                                  [images |-> scanners[i].images,
                                   stale |-> scanners[i].overtaken])
        /\ scanners' = RemoveAt(Overtake(scanners, i), i)
        \* the thread started last is the one self.scanner refers to
        /\ scanner_busy' = (scanner_busy /\ i # Len(scanners))
    /\ ScannerFrame

\* ImageScanner.run: the loop raises (the folder was removed, the disk
\* fails); the except branch emits the empty list, whatever the loop had
\* collected, and the thread ends.
ScannerRaise ==
    /\ IsQt /\ Alive
    /\ \E i \in 1..Len(scanners) :
        /\ scanners[i].phase = "listing"
        /\ scanners[i].todo # {}
        /\ scan_signals' = Append(scan_signals,
                                  [images |-> <<>>,
                                   stale |-> scanners[i].overtaken])
        /\ scanners' = RemoveAt(Overtake(scanners, i), i)
        /\ scanner_busy' = (scanner_busy /\ i # Len(scanners))
    /\ ScannerFrame

\* The event loop delivers the oldest queued scan_complete to on_scan_complete.
ScanDelivered ==
    /\ IsQt /\ Alive
    /\ scan_signals # <<>>
    /\ on_scan_complete(Head(scan_signals).images)
    /\ scan_signals' = Tail(scan_signals)
    /\ UNCHANGED <<variant, decodable, is_random>>
    /\ UNCHANGED oldVars
    /\ UNCHANGED <<disk, scanners, scanner_busy, aborted, old_scanning>>
    /\ UNCHANGED cfgVars
    /\ UNCHANGED calc

\* A file is added to the folder or removed from it.
DiskChange ==
    /\ Alive
    /\ \E p \in ScanFiles :
        disk' = IF p \in disk THEN disk \ {p} ELSE disk \cup {p}
    /\ UNCHANGED <<variant, decodable, lastOp, tries, failed, error>>
    /\ UNCHANGED qtVars
    /\ UNCHANGED oldVars
    /\ UNCHANGED <<scanners, scanner_busy, scan_signals, aborted, old_scanning>>
    /\ UNCHANGED cfgVars
    /\ UNCHANGED calc

\* Key and timer handlers of the window, run by the event loop whatever the
\* scanner threads are doing.  (Scans are followed in sequential mode; the
\* order mode is the subject of Spec.)
QtUi == Alive /\ (KeyRight \/ PlayTimerTimeout \/ KeyLeft \/ KeyP)

\* pygame: the event thread enters _scan_images (from K_s or from _update).
OldScanBegin(op) ==
    /\ IsOld
    /\ old_scanning = "no"
    /\ old_scanning' = op
    /\ UNCHANGED <<variant, decodable, lastOp, tries, failed, error>>
    /\ UNCHANGED qtVars
    /\ UNCHANGED oldVars
    /\ UNCHANGED <<disk, scanners, scanner_busy, scan_signals, aborted>>
    /\ UNCHANGED cfgVars
    /\ UNCHANGED calc

OldKeySBegin == OldScanBegin("Key_S")

OldRescanBegin == OldScanBegin("rescan")

\* pygame: _scan_images returns the sorted list of the folder and the handler
\* that called it goes on.
OldScanEnd ==
    /\ IsOld
    /\ old_scanning # "no"
    /\ IF old_scanning = "Key_S" THEN KeySFound(SortedList(disk))
       ELSE RescanFound(SortedList(disk))
    /\ old_scanning' = "no"
    /\ UNCHANGED qtVars
    /\ UNCHANGED <<disk, scanners, scanner_busy, scan_signals, aborted>>
    /\ UNCHANGED cfgVars
    /\ UNCHANGED calc

\* pygame: key and timer handlers; the event thread runs them only when it is
\* not inside _scan_images.
OldUi ==
    /\ old_scanning = "no"
    /\ (OldKeyRight \/ OldAutoAdvance \/ OldKeyLeft \/ OldKeyR)

\* PySide6: the window constructed, __init__ has started the first scan.
ScanInitQt ==
    /\ is_random = FALSE
    /\ decodable = ScanFiles
    /\ WindowConstructed
    /\ disk \in SUBSET ScanFiles
    /\ scanners = <<NewScanner>>
    /\ scanner_busy = TRUE
    /\ scan_signals = <<>>
    /\ aborted = FALSE
    /\ old_scanning = "no"
    /\ ConfigKept

\* pygame: the player constructed from the folder's files.
ScanInitOld ==
    /\ decodable = ScanFiles
    /\ disk \in SUBSET ScanFiles
    /\ PlayerConstructed(SortedList(disk))
    /\ scanners = <<>>
    /\ scanner_busy = FALSE
    /\ scan_signals = <<>>
    /\ aborted = FALSE
    /\ old_scanning = "no"
    /\ OldConfigKept

ScanInit == ScanInitQt \/ ScanInitOld

ScanNext ==
    \/ ScanTimerTimeout
    \/ KeyS
    \/ ScannerList
    \/ ScannerStep
    \/ ScannerEmit
    \/ ScannerRaise
    \/ ScanDelivered
    \/ DiskChange
    \/ QtUi
    \/ OldKeySBegin
    \/ OldRescanBegin
    \/ OldScanEnd
    \/ OldUi

\* The scan timer keeps firing, scanner threads keep running, queued signals
\* are delivered; pygame's _update keeps rescanning and _scan_images returns.
ScanSpec ==
    /\ ScanInit
    /\ [][ScanNext]_vars
    /\ WF_vars(ScanTimerTimeout)
    /\ WF_vars(ScannerList)
    /\ WF_vars(ScannerStep)
    /\ WF_vars(ScannerEmit)
    /\ WF_vars(ScanDelivered)
    /\ WF_vars(OldRescanBegin)
    /\ WF_vars(OldScanEnd)

(***************************************************************************)
(* The config store: Config.load / set / save (PySide6),                   *)
(* Config.load_from_file / save_to_file and main (pygame)                  *)
(***************************************************************************)
\* cycle_scale_mode without the wrap from stretch back to fit.
KeyZNoWrap ==
    /\ IsQt
    /\ LET current == config["scale_mode"]
           next_mode == CASE current = "'fit'" -> "'fill'"
                          [] current = "'fill'" -> "'stretch'"
                          [] current = "'stretch'" -> "'stretch'"
                          [] OTHER -> "'fill'"         \* not a mode: index 0
       IN  /\ Config_set("scale_mode", next_mode)
           \* self.image_viewer.scale_mode = next_mode; show_current_image
           \* passes the same mode to set_image
           /\ scale_mode' = next_mode
    /\ \E o \in show_current_image(images, {current_index}, is_random,
                                   current_pixmap, MaxDepth) :
        /\ current_index' = o.current_index
        /\ current_pixmap' = o.pixmap
        /\ Observe("cycle_scale_mode", -1, o.tries, o.failed, o.error)
    /\ UNCHANGED <<variant, decodable, images, is_random, play_timer>>
    /\ UNCHANGED oldVars
    /\ UNCHANGED scanVars
    /\ UNCHANGED calc

\* Key_Z -> cycle_scale_mode
KeyZ ==
    /\ IsQt
    /\ LET current == config["scale_mode"]
           next_mode == CASE current = "'fit'" -> "'fill'"
                          [] current = "'fill'" -> "'stretch'"
                          [] current = "'stretch'" -> "'fit'"
                          [] OTHER -> "'fill'"         \* not a mode: index 0
       IN  /\ Config_set("scale_mode", next_mode)
           \* self.image_viewer.scale_mode = next_mode; show_current_image
           \* passes the same mode to set_image
           /\ scale_mode' = next_mode
    /\ \E o \in show_current_image(images, {current_index}, is_random,
                                   current_pixmap, MaxDepth) :
        /\ current_index' = o.current_index
        /\ current_pixmap' = o.pixmap
        /\ Observe("cycle_scale_mode", -1, o.tries, o.failed, o.error)
    /\ UNCHANGED <<variant, decodable, images, is_random, play_timer>>
    /\ UNCHANGED oldVars
    /\ UNCHANGED scanVars
    /\ UNCHANGED calc

\* The PySide6 program is started again: Config() loads the file and
\* SlideshowWindow.__init__ takes the mode from it.
QtStart ==
    /\ IsQt
    /\ config' = Config_load(config_file)
    /\ is_random' = (config'["random"] = "True")
    /\ images' = <<>>
    /\ current_index' = 0
    /\ play_timer' = FALSE
    /\ current_pixmap' = NoImage
    /\ scale_mode' = "'fit'"
    /\ Observe("__init__", -1, 0, -1, "none")
    /\ UNCHANGED <<variant, decodable, config_file, writable>>
    /\ UNCHANGED oldVars
    /\ UNCHANGED scanVars
    /\ UNCHANGED calc

\* Config files a user may leave at the path.
UserObjectsQt ==
    {[k \in CfgKeys |->
        CASE k = "random" -> r
          [] k = "scale_mode" -> m
          [] k = "foo" -> u
          [] OTHER -> Missing] :
     r \in {Missing, "false"}, m \in {Missing, "\"fill\""}, u \in {Missing, "1"}}

UserObjectsOld ==
    {[k \in CfgKeys |->
        CASE k = "interval" -> i
          [] k = "background_color" -> c
          [] k = "valid_extensions" -> e
          [] k = "save_to_file" -> f
          [] k = "foo" -> u
          [] OTHER -> Missing] :
     i \in {Missing, "10.0"}, c \in {Missing, "[255, 255, 255]"},
     e \in {Missing, "[\".jpg\"]"}, f \in {Missing, "1"}, u \in {Missing, "1"}}

UserFiles ==
    {AbsentFile, InvalidFile, ArrayFile, UnreadableFile}
    \cup {ObjectFile(d) : d \in (IF IsQt THEN UserObjectsQt ELSE UserObjectsOld)}

\* What a step of the environment leaves alone.
EnvFrame ==
    /\ Observe("environment", -1, 0, -1, "none")
    /\ UNCHANGED <<variant, decodable>>
    /\ UNCHANGED qtVars
    /\ UNCHANGED oldVars
    /\ UNCHANGED scanVars
    /\ UNCHANGED calc

\* The user replaces, breaks or removes the config file.
FileEdit ==
    /\ config_file' \in UserFiles
    /\ UNCHANGED <<config, writable>>
    /\ EnvFrame

\* The config file's location becomes read-only or full, or writable again.
WritableChange ==
    /\ writable' = ~writable
    /\ UNCHANGED <<config, config_file>>
    /\ EnvFrame

\* The command line of a run of the pygame program.
MainOp(interval, save_config) ==
    IF save_config
    THEN (IF interval = Missing THEN "main --save-config"
          ELSE "main --interval --save-config")
    ELSE (IF interval = Missing THEN "main" ELSE "main --interval")

\* main (pygame): Config.load_from_file, the command-line overrides, and
\* with --save-config config.save_to_file, whose own try catches what open
\* and json.dump raise; the call itself is outside any try.
main(interval, save_config) ==
    /\ IsOld
    /\ LET loaded == load_from_file(config_file)
           cfg == IF interval = Missing THEN loaded
                  ELSE [loaded EXCEPT !["interval"] = interval]
       IN  /\ config' = cfg
           /\ IF ~save_config
              THEN /\ config_file' = config_file
                   /\ Observe(MainOp(interval, save_config), -1, 0, -1, "none")
              ELSE IF callable(cfg["save_to_file"])
              THEN /\ config_file' \in Written(config_file, save_data(cfg))
                   /\ Observe(MainOp(interval, save_config), -1, 0, -1, "none")
              ELSE /\ config_file' = config_file
                   /\ Observe(MainOp(interval, save_config), -1, 0, -1, "TypeError")
    /\ writable' = writable
    /\ UNCHANGED <<variant, decodable>>
    /\ UNCHANGED qtVars
    /\ UNCHANGED oldVars
    /\ UNCHANGED scanVars
    /\ UNCHANGED calc

\* python main.py [--interval 10]
OldMainPlay == \E interval \in {Missing, "10.0"} : main(interval, FALSE)

\* python main.py [--interval 10] --save-config
OldMainSaveConfig == \E interval \in {Missing, "10.0"} : main(interval, TRUE)

\* PySide6: first start, no config file yet.
ConfigInitQt ==
    /\ decodable = {}
    /\ WindowConstructed
    /\ ScanIdle
    /\ config_file = AbsentFile
    /\ config = Config_load(config_file)
    /\ is_random = (config["random"] = "True")
    /\ writable = TRUE

\* pygame: first start, no config file yet.
ConfigInitOld ==
    /\ decodable = {}
    /\ random_order = TRUE
    /\ auto_restart = TRUE
    /\ PlayerConstructed(<<>>)
    /\ ScanIdle
    /\ config_file = AbsentFile
    /\ config = load_from_file(config_file)
    /\ writable = TRUE

ConfigInit == ConfigInitQt \/ ConfigInitOld

ConfigNext ==
    \/ KeyR
    \/ KeyZ
    \/ QtStart
    \/ FileEdit
    \/ WritableChange
    \/ OldMainPlay
    \/ OldMainSaveConfig

ConfigSpec == ConfigInit /\ [][ConfigNext]_vars

(***************************************************************************)
(* The key handlers of a window that is playing a catalog                  *)
(***************************************************************************)
\* Length of the catalogs the window of FrameSpec plays.
MaxShown == 2

\* Key_I -> toggle_info, Key_C -> toggle_clock: the viewer's flag (which
\* setup_ui took from the config) is negated and stored with Config.set;
\* image_viewer.update() repaints.
toggle_flag(op, key) ==
    /\ IsQt
    /\ Config_set(key, PyNot(config[key]))
    /\ Observe(op, -1, 0, -1, "none")
    /\ UNCHANGED <<variant, decodable>>
    /\ UNCHANGED qtVars
    /\ UNCHANGED oldVars
    /\ UNCHANGED scanVars
    /\ UNCHANGED calc

KeyI == toggle_flag("toggle_info", "show_info")

KeyC == toggle_flag("toggle_clock", "show_clock")

\* The PySide6 window after its first scan has completed with the list
\* `found` (on_scan_complete on the empty catalog: shuffle in random mode,
\* index 0, show_current_image, play_timer.start()).
WindowPlaying(found) ==
    /\ variant = "pyside6"
    /\ calc = NoCalc
    /\ is_random \in BOOLEAN
    /\ images \in (IF is_random THEN Shuffle(found) ELSE {found})
    /\ \E o \in show_current_image(images, {0}, is_random, NoImage, MaxDepth) :
        /\ current_index = o.current_index
        /\ current_pixmap = o.pixmap
        /\ scale_mode = IF o.tries > 0 THEN config["scale_mode"] ELSE "'fit'"
        /\ play_timer = (o.error = "none")
        /\ tries = o.tries
        /\ failed = o.failed
        /\ error = o.error
    /\ lastOp = [op |-> "on_scan_complete", found |-> Len(found)]
    /\ image_files = <<>>
    /\ current_image_index = 0
    /\ random_order = FALSE
    /\ auto_restart = FALSE
    /\ current_surface = NoImage

\* The scale modes a config file may name; "zoom" is none of the program's.
ConfiguredModes == {"'fit'", "'fill'", "'stretch'", "'zoom'"}

\* PySide6: the config file names any mode, the first scan has found a list
\* of at most MaxShown images.
FrameInitQt ==
    \* every path decodes, or every path but the last
    /\ decodable \in {Paths, Paths \ {MaxPaths}}
    /\ \E m \in ConfiguredModes :
        /\ config_file = Dumped([DEFAULT_CONFIG EXCEPT !["scale_mode"] = m])
        /\ config = Config_load(config_file)
    /\ writable = TRUE
    /\ \E found \in {l \in Lists : Len(l) \in 1..MaxShown} : WindowPlaying(found)
    /\ is_random = (config["random"] = "True")
    /\ ScanIdle

\* pygame: the player constructed on a list of at most MaxShown images.
FrameInitOld ==
    /\ decodable \in {Paths, Paths \ {MaxPaths}}
    /\ \E files \in {l \in SortedLists : Len(l) \in 1..MaxShown} :
            PlayerConstructed(files)
    /\ ScanIdle
    /\ OldConfigKept

FrameInit == FrameInitQt \/ FrameInitOld

\* Every key and timer handler but the scans.
FrameNext ==
    \/ KeyRight
    \/ PlayTimerTimeout
    \/ KeyLeft
    \/ KeyR
    \/ KeyP
    \/ KeyZ
    \/ KeyI
    \/ KeyC
    \/ OldKeyRight
    \/ OldAutoAdvance
    \/ OldKeyLeft
    \/ OldKeyR

FrameSpec == FrameInit /\ [][FrameNext]_vars

\* The scale-mode key on a playing window, with next to move the index and
\* writes to the config file that can fail.
CycleNext ==
    \/ KeyZ
    \/ KeyRight
    \/ WritableChange

CycleSpec == FrameInitQt /\ [][CycleNext]_vars

(***************************************************************************)
(* The playback state of whichever program runs                            *)
(***************************************************************************)
Catalog == IF IsQt THEN images ELSE image_files

Index == IF IsQt THEN current_index ELSE current_image_index

RandomMode == IF IsQt THEN is_random ELSE random_order

Shown == IF IsQt THEN current_pixmap ELSE current_surface

InRange(i, s) == 0 <= i /\ i < Len(s)

AllDecode(s) == Range(s) \subseteq decodable

(***************************************************************************)
(* Claims                                                                  *)
(***************************************************************************)

\* C1: in every reachable state of the PySide6 controller, whenever the
\* catalog is non-empty the playback index is a valid position in it:
\* 0 <= current_index < len(images).
C1_IndexValid == (IsQt /\ images # <<>>) => InRange(current_index, images)

\* C2: in sequential mode, on a non-empty catalog whose images all decode, a
\* next or a previous operation of either program leaves the playback index
\* within [0, len(catalog)).
C2_SequentialInRange ==
    [][(/\ lastOp'.op \in {"next_image", "prev_image"}
        /\ Catalog # <<>>
        /\ ~RandomMode
        /\ AllDecode(Catalog))
       => InRange(Index', Catalog')]_vars

\* C2 witness: a previous operation in sequential mode has wrapped from index
\* 0 to the last position of a catalog of at least two decodable images.
C2_Witness ==
    /\ lastOp.op = "prev_image"
    /\ ~RandomMode
    /\ Len(Catalog) >= 2
    /\ AllDecode(Catalog)
    /\ Index = Len(Catalog) - 1

\* C3: a scan completion with zero images leaves the controller with an
\* empty catalog and a stopped play timer, whatever the state before (so a
\* following next or previous, which returns at once on an empty catalog,
\* shows nothing of the earlier catalog).
C3_EmptyScanEmpties ==
    [][(lastOp'.op = "on_scan_complete" /\ lastOp'.found = 0)
       => (images' = <<>> /\ ~play_timer')]_vars

\* C4: when a scan has completed with zero images and the next completion
\* delivers at least one image, then right after that completion the play
\* timer is active and the index is 0 (stated for the later completion being
\* the next handler to run, and for delivered images that all decode).
C4_FoundAfterEmptyPlays ==
    [][(/\ lastOp.op = "on_scan_complete" /\ lastOp.found = 0
        /\ lastOp'.op = "on_scan_complete" /\ lastOp'.found >= 1
        /\ AllDecode(images'))
       => (play_timer' /\ current_index' = 0)]_vars

\* C5: in sequential mode, on a non-empty catalog whose images all decode,
\* one next operation sets the index to (index + 1) mod len(catalog) and
\* leaves the catalog unchanged (so 0 -> 1 -> 2 -> 0 on a catalog of 3).
C5_NextAdvances ==
    [][(/\ lastOp'.op = "next_image"
        /\ Catalog # <<>>
        /\ ~RandomMode
        /\ AllDecode(Catalog))
       => (Index' = (Index + 1) % Len(Catalog) /\ Catalog' = Catalog)]_vars

\* C5 witness: on a catalog of three decodable images in sequential mode a
\* next operation has wrapped the index from 2 to 0.
C5_Witness ==
    /\ lastOp.op = "next_image"
    /\ ~RandomMode
    /\ Len(Catalog) = 3
    /\ AllDecode(Catalog)
    /\ Index = 0

\* C6: while random mode is active a previous operation leaves the playback
\* index and the catalog unchanged.
C6_PrevDisabledInRandom ==
    [][(lastOp'.op = "prev_image" /\ RandomMode)
       => (Index' = Index /\ Catalog' = Catalog)]_vars

\* C7: when toggle-random switches from random to sequential on a non-empty
\* catalog, the catalog is afterwards in lexicographic path order and the
\* index is 0 (stated for a catalog whose images all decode, so that no skip
\* moves the index on).
C7_SequentialIsSorted ==
    [][(/\ lastOp'.op = "toggle_random"
        /\ RandomMode /\ ~RandomMode'
        /\ Catalog # <<>>
        /\ AllDecode(Catalog))
       => (Catalog' = Sort(Catalog) /\ Index' = 0)]_vars

\* C8 as stated: switching from sequential to random mode on a catalog of
\* length >= 2 always produces an order different from the one before.
C8_ShuffleChangesOrder ==
    [][(/\ lastOp'.op = "toggle_random"
        /\ ~RandomMode /\ RandomMode'
        /\ Len(Catalog) >= 2)
       => Catalog' # Catalog]_vars

\* C8 amended: switching from sequential to random mode on a catalog of
\* length >= 2 produces a reordering of the catalog it had before (the same
\* paths, each as often as before); the order may be the same one.
C8_ShuffleIsPermutation ==
    [][(/\ lastOp'.op = "toggle_random"
        /\ ~RandomMode /\ RandomMode'
        /\ Len(Catalog) >= 2)
       => IsPermutation(Catalog, Catalog')]_vars

\* C8 witness: the pygame program has switched to random mode and the
\* shuffle returned the sorted order the catalog had in sequential mode.
C8_Witness ==
    /\ IsOld
    /\ lastOp.op = "toggle_random"
    /\ random_order
    /\ Len(image_files) >= 2
    /\ IsSorted(image_files)

\* C9 as stated: when decoding the image at index i fails (`failed` is the
\* index of the most recent failed decode of the handler) the controller
\* moves to (i + 1) mod len(catalog) and shows that image if it decodes, in
\* whatever order mode.
C9_SkipToSuccessor ==
    failed # -1 =>
        /\ Index = (failed + 1) % Len(Catalog)
        /\ At(Catalog, Index) \in decodable => Shown = At(Catalog, Index)

\* C9 amended: the same, in sequential mode of both programs and in random
\* mode of the pygame program; in random mode the PySide6 program draws the
\* index to try next at random.
C9_SkipToSuccessorSequential ==
    (failed # -1 /\ (IsOld \/ ~is_random)) =>
        /\ Index = (failed + 1) % Len(Catalog)
        /\ At(Catalog, Index) \in decodable => Shown = At(Catalog, Index)

\* C9 witness: in sequential mode the decode of the 2nd of 3 images failed
\* and the 3rd is shown.
C9_Witness ==
    /\ IsQt /\ ~is_random
    /\ Len(images) = 3
    /\ failed = 1
    /\ current_index = 2
    /\ current_pixmap = At(images, 2)
    /\ error = "none"

\* C10: the automatic skip tries at most len(catalog) images in one handler
\* and never runs into the interpreter's recursion limit.
C10_SkipBounded == tries <= Len(Catalog) /\ error # "RecursionError"

\* C13: a press of P flips the play timer between active and stopped and
\* leaves the playback index, the catalog and the order mode unchanged (two
\* presses in a row therefore restore the timer).
C13_PauseOnlyTogglesTimer ==
    [][lastOp'.op = "Key_P"
       => (/\ play_timer' = ~play_timer
           /\ UNCHANGED <<images, current_index, is_random>>)]_vars

\* C13 witness: P has paused a slideshow that had advanced past the first
\* image.
C13_Witness ==
    /\ lastOp.op = "Key_P"
    /\ ~play_timer
    /\ images # <<>>
    /\ current_index > 0

\* C14: a non-empty scan completion replaces the catalog; it starts playback
\* (index 0, first image shown, play timer active; stated for delivered images
\* that decode) when the catalog was empty, and otherwise leaves the index and
\* the play timer as they were.  A catalog once non-empty never becomes empty
\* again, so the catalog is empty exactly until the first successful scan.
C14_OnlyFirstScanStartsPlayback ==
    [][/\ images # <<>> => images' # <<>>
       /\ (lastOp'.op = "on_scan_complete" /\ lastOp'.found >= 1)
          => /\ Len(images') = lastOp'.found
             /\ IF images = <<>>
                THEN AllDecode(images')
                     => /\ current_index' = 0
                        /\ current_pixmap' = At(images', 0)
                        /\ play_timer'
                ELSE /\ current_index' = current_index
                     /\ play_timer' = play_timer]_vars

\* C14 witness: a later non-empty scan has completed while the slideshow was
\* paused past the first image, and the timer is still stopped.
C14_Witness ==
    /\ lastOp.op = "on_scan_complete"
    /\ lastOp.found >= 1
    /\ ~play_timer
    /\ current_index > 0
    /\ current_pixmap # NoImage

\* C20 as stated: pressing the same key again leaves the controller in the
\* state the first press left it in.
C20_RepeatPressIdempotent ==
    [][(/\ lastOp'.op = lastOp.op
        /\ lastOp.op \in {"next_image", "prev_image", "toggle_random", "Key_P", "Key_S"})
       => UNCHANGED <<qtVars, oldVars>>]_vars

\* C20 amended: a press is never absorbed, a repeated press acts again: P
\* flips the play timer, R flips the order mode, and in sequential mode on a
\* catalog of >= 2 decodable images next and previous move the index.
C20_EveryPressActs ==
    [][/\ lastOp'.op = "Key_P" => play_timer' # play_timer
       /\ lastOp'.op = "toggle_random" => RandomMode' # RandomMode
       /\ (/\ lastOp'.op \in {"next_image", "prev_image"}
           /\ ~RandomMode
           /\ AllDecode(Catalog)
           /\ Len(Catalog) >= 2)
          => Index' # Index]_vars

\* C20 witness: next was pressed at least twice in sequential mode (from the
\* index 0 of the first scan to index 2 of 3 decodable images).
C20_Witness ==
    /\ IsQt
    /\ lastOp.op = "next_image"
    /\ ~is_random
    /\ Len(images) = 3
    /\ AllDecode(images)
    /\ current_index = 2
    /\ play_timer

\* C11: at most one scan of the PySide6 program is in flight (started and
\* not yet handed to on_scan_complete) at any time.
C11_OneScanInFlight == IsQt => InFlight <= 1

\* C12: if the files of the folder stop changing at a set S (and the process
\* lives), then eventually the catalog holds exactly the paths of S and keeps
\* holding them.
C12_CatalogFollowsDisk ==
    \A S \in SUBSET ScanFiles :
        <>[](disk = S /\ Alive) => <>[](Range(Catalog) = S)

\* A scanner step: scanners changes and no new scanner is appended.
IsScannerStep == scanners' # scanners /\ Len(scanners') <= Len(scanners)

\* C15: a step of a scanner thread changes nothing of the window (catalog,
\* index, mode, play timer, shown image); the catalog changes only by the
\* delivery of a queued scan_complete, to the whole list a finished scan
\* emitted, or by a reordering done by a handler (pygame: only by the return
\* of _scan_images, to the whole sorted list, or by a reordering).
C15_CatalogOnlyByHandoff ==
    [][/\ IsScannerStep => UNCHANGED <<qtVars, lastOp>>
       /\ images' # images
          => \/ /\ scan_signals # <<>>
                /\ IsPermutation(Head(scan_signals).images, images')
                /\ scan_signals' = Tail(scan_signals)
             \/ IsPermutation(images, images')
       /\ image_files' # image_files
          => \/ old_scanning # "no" /\ image_files' = SortedList(disk)
             \/ IsPermutation(image_files, image_files')]_vars

\* C15 witness: a scanner thread holds a list still being built (paths left
\* to visit) that differs from the catalog the window is showing.
C15_Witness ==
    /\ images # <<>>
    /\ current_pixmap # NoImage
    /\ \E i \in 1..Len(scanners) :
        /\ scanners[i].phase = "listing"
        /\ scanners[i].todo # {}
        /\ scanners[i].images # images

\* C16: while a scan is in progress the key handlers next, previous,
\* toggle-random and pause can run.
C16_UiRunsDuringScan ==
    (Alive /\ (InFlight > 0 \/ old_scanning # "no"))
    => IF IsQt
       THEN ENABLED KeyRight /\ ENABLED KeyLeft /\ ENABLED KeyR /\ ENABLED KeyP
       ELSE ENABLED OldUi

\* The handlers that end by saving the settings.
SaveOps ==
    {"toggle_random", "cycle_scale_mode",
     "main --save-config", "main --interval --save-config"}

\* The write of the step now taken can succeed.
CanWrite == writable /\ config_file.kind # "unreadable"

\* C17: after a save that could write, loading the file gives, for every
\* key of the defaults, the value the settings had when saved.
C17_RoundTrip ==
    [][(lastOp'.op \in SaveOps /\ CanWrite)
       => IF IsQt
          THEN \A k \in QtKeys : Config_load(config_file')[k] = config'[k]
          ELSE \A k \in OldKeys : load_from_file(config_file')[k] = config'[k]]_vars

\* C18: a handler that calls Config.set leaves the new value in memory and
\* goes on, no exception reaching it, whether or not the write succeeds; if
\* the write can succeed, the file afterwards is an object holding exactly
\* the settings in memory; if not, the file is as before or truncated.
C18_SetPersists ==
    [][(IsQt /\ lastOp'.op \in {"toggle_random", "cycle_scale_mode"})
       => /\ lastOp'.op = "toggle_random"
             => /\ is_random' = ~is_random
                /\ config' = [config EXCEPT !["random"] = PyBool(is_random')]
          /\ lastOp'.op = "cycle_scale_mode"
             => /\ config'["scale_mode"]
                      \in {"'fit'", "'fill'", "'stretch'"} \ {config["scale_mode"]}
                /\ \A k \in CfgKeys \ {"scale_mode"} : config'[k] = config[k]
          /\ error' = "none"
          /\ IF CanWrite
             THEN /\ config_file'.kind = "object"
                  /\ \A k \in CfgKeys :
                        config'[k] = IF config_file'.data[k] = Missing THEN Missing
                                     ELSE loads(config_file'.data[k])
             ELSE config_file' \in {config_file, InvalidFile}]_vars

\* C18 witness: toggle_random has run while the file could not be written:
\* the mode in memory is the new one, the file still holds the old one.
C18_Witness ==
    /\ IsQt
    /\ lastOp.op = "toggle_random"
    /\ ~writable
    /\ config_file.kind = "object"
    /\ config_file.data["random"] # Missing
    /\ loads(config_file.data["random"]) # config["random"]

\* C19: after a load, every recognised key has the file's value if the file
\* is an object with that key and the default otherwise, and nothing else
\* differs from the defaults (a list and a tuple of the same items counting
\* as the same value).
C19_LoadMergesRecognised ==
    [][(lastOp'.op \in {"__init__", "main"})
       => \A k \in CfgKeys :
            list_of(config'[k]) =
                list_of(IF /\ k \in (IF IsQt THEN QtKeys ELSE OldKeys)
                           /\ config_file.kind = "object"
                           /\ config_file.data[k] # Missing
                        THEN loads(config_file.data[k])
                        ELSE (IF IsQt THEN DEFAULT_CONFIG ELSE Config_init)[k])]_vars

\* C26: whenever the PySide6 window displays an image and the catalog is
\* not empty, the displayed image is the one at catalog[current_index].
C26_ShownIsCurrent ==
    (IsQt /\ current_pixmap # NoImage /\ images # <<>>)
    => (InRange(current_index, images) /\ current_pixmap = At(images, current_index))

\* C27: the play timer of the PySide6 window is active only if the catalog
\* is not empty.
C27_PlayingHasImages == (IsQt /\ play_timer) => images # <<>>

\* C28: the completion of a scan that was overtaken (a scan started after it
\* completed before it) does not change the catalog.
C28_StaleResultIgnored ==
    [][(/\ scan_signals # <<>>
        /\ scan_signals' = Tail(scan_signals)
        /\ Head(scan_signals).stale)
       => images' = images]_vars

\* C29: no key or timer handler other than a scan changes which paths the
\* catalog holds: after next, previous, toggle-random, pause/resume,
\* cycle-scale-mode, toggle-info or toggle-clock the catalog is a
\* permutation of what it was.
C29_HandlersKeepPaths ==
    [][lastOp'.op \notin {"on_scan_complete", "Key_S", "rescan"}
       => IsPermutation(Catalog, Catalog')]_vars

\* C29 witness: toggle_random has shuffled a catalog of two or more images
\* into another order.
C29_Witness ==
    /\ IsQt
    /\ lastOp.op = "toggle_random"
    /\ is_random
    /\ Len(images) >= 2
    /\ ~IsSorted(images)
    /\ config["show_info"] = "False"
    /\ config["scale_mode"] = "'stretch'"

\* The modes of cycle_scale_mode, and the mode that follows each.
ScaleModes == {"'fit'", "'fill'", "'stretch'"}

NextMode(m) ==
    CASE m = "'fit'" -> "'fill'"
      [] m = "'fill'" -> "'stretch'"
      [] m = "'stretch'" -> "'fit'"

\* The current image of the window decodes.
CurrentDecodes == InRange(current_index, images) /\ At(images, current_index) \in decodable

\* C30 as claimed: after a press of Z the mode a restart would load from the
\* config file and the mode displayed are equal and one of fit, fill,
\* stretch, the mode has moved one step along fit -> fill -> stretch -> fit
\* if it was one of them, and index and catalog are unchanged if the current
\* image decodes.
C30_PersistedIsDisplayed ==
    [][lastOp'.op = "cycle_scale_mode"
       => /\ Config_load(config_file')["scale_mode"] = scale_mode'
          /\ scale_mode' \in ScaleModes
          /\ config["scale_mode"] \in ScaleModes
                => scale_mode' = NextMode(config["scale_mode"])
          /\ CurrentDecodes => UNCHANGED <<current_index, images>>]_vars

\* C30 amended: after a press of Z the setting in memory and the mode
\* displayed are equal and one of fit, fill, stretch, and the config file
\* holds that mode too if the write can succeed; the mode has moved one step
\* along fit -> fill -> stretch -> fit if it was one of them; index and
\* catalog are unchanged, and the current image is shown, if it decodes.
C30_CycleStepsMode ==
    [][lastOp'.op = "cycle_scale_mode"
       => /\ config'["scale_mode"] = scale_mode'
          /\ CanWrite => Config_load(config_file')["scale_mode"] = scale_mode'
          /\ scale_mode' \in ScaleModes
          /\ config["scale_mode"] \in ScaleModes
                => scale_mode' = NextMode(config["scale_mode"])
          /\ CurrentDecodes
                => /\ UNCHANGED <<current_index, images>>
                   /\ current_pixmap' = At(images, current_index)]_vars

\* C30 witness: Z has wrapped the mode from stretch to fit while the config
\* file could not be written; an image is displayed.
C30_Witness ==
    /\ lastOp.op = "cycle_scale_mode"
    /\ ~writable
    /\ scale_mode = "'fit'"
    /\ Config_load(config_file)["scale_mode"] = "'stretch'"
    /\ current_pixmap # NoImage

(***************************************************************************)
(* Scaling an image to the viewport: ImagePlayer._load_image (pygame),     *)
(* ImageViewer.update_display (PySide6)                                    *)
(***************************************************************************)
\* Largest width and height of an image, in pixels.
MaxImage == 11

\* Largest width and height of the viewport, in pixels.
MaxScreen == 15

Max(a, b) == IF a >= b THEN a ELSE b

Min(a, b) == IF a <= b THEN a ELSE b

Abs(a) == IF a >= 0 THEN a ELSE 0 - a

\* The <<x, a, b>> with x, b <= 13 and a <= 17 for which the Python float
\* x * (a / b) is below the exact x*a/b by enough to change int(): a / b is
\* rounded to a double and so is the product; here the exact value is a
\* whole number and the double is the one just below it.
FloatShort == {<<11, 15, 11>>, <<13, 15, 13>>}

\* int(x * scale) for the float scale = a / b.
IntScaled(x, a, b) ==
    IF <<x, a, b>> \in FloatShort THEN (x * a) \div b - 1 ELSE (x * a) \div b

\* What _load_image and update_display make of an image of iw x ih pixels
\* on a viewport of sw x sh: the scaled size, where its corner is put (x, y:
\* the blit position, or the corner of the crop rectangle), and the branch.
Scaled(op, branch, w, h, x, y) ==
    [calc EXCEPT !.op = op, !.branch = branch, !.new_width = w,
                 !.new_height = h, !.x = x, !.y = y]

\* scale = max(sw / iw, sh / ih), as the pair <<numerator, denominator>>.
MaxScale(iw, ih, sw, sh) == IF sw * ih >= sh * iw THEN <<sw, iw>> ELSE <<sh, ih>>

\* scale = min(sw / iw, sh / ih).
MinScale(iw, ih, sw, sh) == IF sw * ih <= sh * iw THEN <<sw, iw>> ELSE <<sh, ih>>

\* _load_image, scale_mode == "stretch".
stretch_old(iw, ih, sw, sh) == Scaled("_load_image", "stretch", sw, sh, 0, 0)

\* _load_image, scale_mode == "fill": crop the centre, or, when the scaled
\* image is smaller than the screen on an axis, blit it onto a canvas of the
\* background colour.
fill_old(iw, ih, sw, sh) ==
    LET scale == MaxScale(iw, ih, sw, sh)
        new_width == IntScaled(iw, scale[1], scale[2])
        new_height == IntScaled(ih, scale[1], scale[2])
        x == (new_width - sw) \div 2
        y == (new_height - sh) \div 2
    IN  IF x < 0 \/ y < 0
        THEN Scaled("_load_image", "canvas", new_width, new_height,
                    Max(0, x), Max(0, y))
        ELSE Scaled("_load_image", "subsurface", new_width, new_height, x, y)

\* The same with min for max: the scale of fit.
fit_old_expanding(iw, ih, sw, sh) ==
    LET scale == MaxScale(iw, ih, sw, sh)
        new_width == IntScaled(iw, scale[1], scale[2])
        new_height == IntScaled(ih, scale[1], scale[2])
    IN  Scaled("_load_image", "fit", new_width, new_height,
               (sw - new_width) \div 2, (sh - new_height) \div 2)

\* _load_image, any other scale_mode ("fit"): blit onto a canvas at the
\* centring offsets.
fit_old(iw, ih, sw, sh) ==
    LET scale == MinScale(iw, ih, sw, sh)
        new_width == IntScaled(iw, scale[1], scale[2])
        new_height == IntScaled(ih, scale[1], scale[2])
    IN  Scaled("_load_image", "fit", new_width, new_height,
               (sw - new_width) \div 2, (sh - new_height) \div 2)

\* QPixmap.scaled(size, aspectMode): QSize.scale in 64-bit integer
\* arithmetic, each side at least 1.
QPixmap_scaled(iw, ih, sw, sh, aspectMode) ==
    LET rw == (sh * iw) \div ih
        useHeight == IF aspectMode = "KeepAspectRatio" THEN rw <= sw
                     ELSE rw >= sw
        size == IF aspectMode = "IgnoreAspectRatio" THEN <<sw, sh>>
                ELSE IF useHeight THEN <<rw, sh>>
                ELSE <<sw, (sw * ih) \div iw>>
    IN  <<Max(size[1], 1), Max(size[2], 1)>>

\* update_display: the label shows the scaled pixmap centred (AlignCenter),
\* clipped to the label when larger.
update_display(iw, ih, sw, sh) ==
    LET aspectMode == IF scale_mode = "'fit'" THEN "KeepAspectRatio"
                      ELSE IF scale_mode = "'fill'"
                      THEN "KeepAspectRatioByExpanding"
                      ELSE "IgnoreAspectRatio"
        size == QPixmap_scaled(iw, ih, sw, sh, aspectMode)
    IN  Scaled("update_display", aspectMode, size[1], size[2],
               Abs(sw - size[1]) \div 2, Abs(sh - size[2]) \div 2)

\* The pygame player decodes its current image and scales it.
LoadImage ==
    /\ IsOld
    /\ calc.op # "none"
    /\ calc' = IF config["scale_mode"] = "'stretch'"
               THEN stretch_old(calc.iw, calc.ih, calc.sw, calc.sh)
               ELSE IF config["scale_mode"] = "'fill'"
               THEN fill_old(calc.iw, calc.ih, calc.sw, calc.sh)
               ELSE fit_old(calc.iw, calc.ih, calc.sw, calc.sh)
    /\ UNCHANGED <<variant, decodable, lastOp, tries, failed, error>>
    /\ UNCHANGED qtVars
    /\ UNCHANGED oldVars
    /\ UNCHANGED envVars

\* The PySide6 viewer scales its pixmap (set_image, resizeEvent,
\* cycle_scale_mode).
UpdateDisplay ==
    /\ IsQt
    /\ calc.op # "none"
    /\ current_pixmap # NoImage
    /\ calc' = update_display(calc.iw, calc.ih, calc.sw, calc.sh)
    /\ UNCHANGED <<variant, decodable, lastOp, tries, failed, error>>
    /\ UNCHANGED qtVars
    /\ UNCHANGED oldVars
    /\ UNCHANGED envVars

\* The modes of the two programs.
ProgramModes == {"'fit'", "'fill'", "'stretch'"}

\* An image of any size has been decoded and the viewport has any size.
Decoded ==
    \E iw \in 1..MaxImage, ih \in 1..MaxImage, sw \in 1..MaxScreen,
       sh \in 1..MaxScreen :
        calc = [op |-> "open", branch |-> "none", iw |-> iw, ih |-> ih,
                sw |-> sw, sh |-> sh, new_width |-> 0, new_height |-> 0,
                x |-> 0, y |-> 0]

\* PySide6: the window holds one image, in any mode.
OneImageQt ==
    /\ variant = "pyside6"
    /\ decodable = Paths
    /\ images = <<1>>
    /\ current_index = 0
    /\ is_random = FALSE
    /\ play_timer = TRUE
    /\ current_pixmap = 1
    /\ scale_mode \in ProgramModes
    /\ image_files = <<>>
    /\ current_image_index = 0
    /\ random_order = FALSE
    /\ auto_restart = FALSE
    /\ current_surface = NoImage
    /\ lastOp = [op |-> "on_scan_complete", found |-> 1]
    /\ tries = 1
    /\ failed = -1
    /\ error = "none"
    /\ ScanIdle
    /\ config = [DEFAULT_CONFIG EXCEPT !["scale_mode"] = scale_mode]
    /\ config_file = Dumped(config)
    /\ writable = TRUE

\* pygame: the player holds one image, in any mode.
OneImageOld ==
    /\ variant = "pygame"
    /\ decodable = Paths
    /\ image_files = <<1>>
    /\ current_image_index = 0
    /\ random_order = FALSE
    /\ auto_restart = FALSE
    /\ current_surface = 1
    /\ images = <<>>
    /\ current_index = 0
    /\ is_random = FALSE
    /\ play_timer = FALSE
    /\ current_pixmap = NoImage
    /\ scale_mode = "'fit'"
    /\ lastOp = [op |-> "__init__", found |-> 1]
    /\ tries = 1
    /\ failed = -1
    /\ error = "none"
    /\ ScanIdle
    /\ \E m \in ProgramModes : config = [Config_init EXCEPT !["scale_mode"] = m]
    /\ config_file = AbsentFile
    /\ writable = TRUE

ScaleInitQt == OneImageQt /\ Decoded

ScaleInitOld == OneImageOld /\ Decoded

ScaleInit == ScaleInitQt \/ ScaleInitOld

ScaleNext ==
    \/ LoadImage
    \/ UpdateDisplay

ScaleSpec == ScaleInit /\ [][ScaleNext]_vars

\* C23: fit scaling never crops: for every image size and viewport size the
\* scaled size is at most the viewport on both axes, the centring offsets
\* are not negative, and the scaled size has the image's aspect ratio up to
\* one pixel on one side.
FitApplied ==
    \/ calc.op = "_load_image" /\ calc.branch = "fit"
    \/ calc.op = "update_display" /\ calc.branch = "KeepAspectRatio"

C23_FitNeverCrops ==
    FitApplied =>
        /\ calc.new_width <= calc.sw
        /\ calc.new_height <= calc.sh
        /\ (calc.sw - calc.new_width) \div 2 >= 0
        /\ (calc.sh - calc.new_height) \div 2 >= 0
        /\ calc.x = (calc.sw - calc.new_width) \div 2
        /\ calc.y = (calc.sh - calc.new_height) \div 2
        /\ Abs(calc.new_width * calc.ih - calc.new_height * calc.iw)
               <= Max(calc.iw, calc.ih)

\* A wide image letterboxed by the pygame player: bars above and below.
C23_Witness ==
    /\ calc.op = "_load_image"
    /\ calc.branch = "fit"
    /\ calc.iw > calc.ih
    /\ calc.new_width = calc.sw
    /\ calc.new_height < calc.sh
    /\ calc.y > 0

\* C24: fill scaling always covers the viewport: the scaled size is at
\* least the viewport on both axes, the centred crop rectangle of the
\* viewport's size lies inside the scaled image, and the pygame branch that
\* blits onto a canvas of the background colour is never taken.
FillApplied ==
    \/ calc.op = "_load_image" /\ calc.branch \in {"canvas", "subsurface"}
    \/ calc.op = "update_display" /\ calc.branch = "KeepAspectRatioByExpanding"

C24_FillCovers ==
    FillApplied =>
        /\ calc.new_width >= calc.sw
        /\ calc.new_height >= calc.sh
        /\ calc.x >= 0
        /\ calc.y >= 0
        /\ calc.x + calc.sw <= calc.new_width
        /\ calc.y + calc.sh <= calc.new_height
        /\ calc.branch # "canvas"

(***************************************************************************)
(* Traversing a folder: ImageScanner.run (PySide6), _scan_images (pygame), *)
(* count_all_files (test_scanner.py)                                       *)
(***************************************************************************)
\* Number of entries (files and directories) below the folder.
MaxEntries == 2

\* Suffixes of the names in the folder, on a file system that tells upper
\* case from lower case.
Suffixes == {".jpg", ".JPG", ".Jpg", ".png", ".txt"}

\* An entry is the name "a" + suffix, directly in the folder (depth 0) or in
\* its subfolder "sub" (depth 1); it is a file or a directory.
Entries == [depth : {0, 1}, suffix : Suffixes, kind : {"file", "dir"}]

\* str.lower() and str.upper() on the suffixes and configured extensions.
Lower(x) ==
    CASE x \in {".jpg", ".JPG", ".Jpg"} -> ".jpg"
      [] x \in {".png", ".PNG"} -> ".png"
      [] x \in {".txt", ".TXT"} -> ".txt"
      [] OTHER -> x

Upper(x) ==
    CASE x \in {".jpg", ".JPG", ".Jpg"} -> ".JPG"
      [] x \in {".png", ".PNG"} -> ".PNG"
      [] x \in {".txt", ".TXT"} -> ".TXT"
      [] OTHER -> x

\* Rank of an entry's path in str order: "a.JPG" < "a.Jpg" < "a.jpg" <
\* "a.png" < "a.txt" < "sub/a.JPG" < ...
PathRank(e) ==
    5 * e.depth + (CASE e.suffix = ".JPG" -> 0 [] e.suffix = ".Jpg" -> 1
                     [] e.suffix = ".jpg" -> 2 [] e.suffix = ".png" -> 3
                     [] OTHER -> 4)

\* The folder's entries in directory order: no two with the same name.
Trees ==
    {t \in UNION {[1..n -> Entries] : n \in 0..MaxEntries} :
        \A i, j \in 1..Len(t) : i # j => PathRank(t[i]) # PathRank(t[j])}

\* The entries a traversal gets to see: glob and os.walk skip a directory
\* they may not list, without raising.
Visible(c) ==
    LET seen(e) == e.depth = 0 \/ ~c.unreadable
    IN  IF c.folder = "dir" THEN SelectSeq(c.tree, seen) ELSE <<>>

\* sorted(...): the entries of a set by path.
SortedByPath(S) ==
    CHOOSE t \in [1..Cardinality(S) -> S] :
        /\ \A i, j \in 1..Cardinality(S) : i < j => PathRank(t[i]) < PathRank(t[j])

\* ImageScanner.run: the list scan_complete carries.
run(c) ==
    LET extensions == {Lower(ext) : ext \in c.extensions}
        taken(path) ==
            /\ c.recursive \/ path.depth = 0
            /\ path.kind = "file"
            /\ Lower(path.suffix) \in extensions
    IN  IF c.folder = "missing" THEN <<>> ELSE SelectSeq(Visible(c), taken)

\* _scan_images: image_files afterwards.  glob and rglob match the name
\* against "*" + ext and against that pattern in upper case.
_scan_images(c) ==
    LET matched(f) ==
            /\ c.recursive \/ f.depth = 0
            /\ \E ext \in c.extensions :
                    f.suffix = ext \/ f.suffix = Upper(ext)
    IN  IF c.folder = "missing" THEN <<>>
        ELSE SortedByPath({f \in Range(Visible(c)) : matched(f)})

\* count_all_files: the value returned.
count_all_files(c) ==
    IF c.folder = "missing" THEN -1
    ELSE IF c.folder # "dir" THEN -1
    ELSE Cardinality({f \in Range(Visible(c)) : f.kind = "file"})

\* A scan has run `scans` times (counted to 2); prev is the result before.
Scanned(op, result) ==
    [calc EXCEPT !.op = op, !.prev = calc.result, !.result = result,
                 !.scans = Min(calc.scans + 1, 2)]

\* PySide6: a scan from start to scan_complete.emit.
ScanRun ==
    /\ IsQt
    /\ calc.op # "none"
    /\ calc' = Scanned("run", run(calc))
    /\ UNCHANGED <<variant, decodable, lastOp, tries, failed, error>>
    /\ UNCHANGED qtVars
    /\ UNCHANGED oldVars
    /\ UNCHANGED envVars

\* pygame: _scan_images from entry to return.
OldScanImages ==
    /\ IsOld
    /\ calc.op # "none"
    /\ calc' = Scanned("_scan_images", _scan_images(calc))
    /\ UNCHANGED <<variant, decodable, lastOp, tries, failed, error>>
    /\ UNCHANGED qtVars
    /\ UNCHANGED oldVars
    /\ UNCHANGED envVars

\* python test_scanner.py on the folder.
CountAllFiles ==
    /\ calc.op # "none"
    /\ calc' = [calc EXCEPT !.op = "count_all_files",
                            !.count = count_all_files(calc)]
    /\ UNCHANGED <<variant, decodable, lastOp, tries, failed, error>>
    /\ UNCHANGED qtVars
    /\ UNCHANGED oldVars
    /\ UNCHANGED envVars

\* The extension sets a configuration may hold.
ExtensionSets == {{".jpg"}, {".JPG"}, {".jpg", ".png"}, {".Jpg", ".png"}}

\* Any folder (absent, a file, or a directory tree whose subfolder may be
\* unreadable), any extension set, either recursive flag.
FolderGiven ==
    \E tree \in Trees, folder \in {"dir", "missing", "file"},
       unreadable \in BOOLEAN, extensions \in ExtensionSets,
       recursive \in BOOLEAN :
        /\ folder # "dir" => tree = <<>> /\ ~unreadable
        /\ unreadable => \E i \in 1..Len(tree) : tree[i].depth = 1
        /\ calc = [op |-> "given", folder |-> folder, tree |-> tree,
                   unreadable |-> unreadable, extensions |-> extensions,
                   recursive |-> recursive, result |-> <<>>, prev |-> <<>>,
                   scans |-> 0, count |-> 0]

TreeInit ==
    \/ OneImageQt /\ scale_mode = "'fit'" /\ FolderGiven
    \/ OneImageOld /\ config["scale_mode"] = "'fit'" /\ FolderGiven

TreeNext ==
    \/ ScanRun
    \/ OldScanImages
    \/ CountAllFiles

TreeSpec == TreeInit /\ [][TreeNext]_vars

\* The files a scan is to find: at any depth when recursive, top level only
\* when not, the suffix equal to a configured extension when both are
\* lowered.
Wanted ==
    {f \in Range(calc.tree) :
        /\ f.kind = "file"
        /\ calc.recursive \/ f.depth = 0
        /\ \E ext \in calc.extensions : Lower(f.suffix) = Lower(ext)}

\* C21: on a folder tree that can be read, the scan result holds each
\* wanted file exactly once and nothing else, and a second scan of the
\* unchanged tree returns the same list in the same order.
C21_ScanFindsExactly ==
    (calc.op \in {"run", "_scan_images"} /\ calc.folder = "dir"
            /\ ~calc.unreadable) =>
        /\ Range(calc.result) = Wanted
        /\ Len(calc.result) = Cardinality(Wanted)
        /\ calc.scans = 2 => calc.prev = calc.result

\* C25: count_all_files returns the number of files in the folder and all
\* of its subfolders, directories not counted, and -1 when the path does
\* not exist or is not a folder.
C25_CountsAllFiles ==
    calc.op = "count_all_files" =>
        calc.count = IF calc.folder = "dir"
                     THEN Cardinality({f \in Range(calc.tree) : f.kind = "file"})
                     ELSE -1

\* C22: a scan of a folder that does not exist, or whose traversal raises,
\* completes normally with the empty list: the process is never aborted
\* while the completion of a started scan is outstanding, and the delivery of
\* an empty list ends without an exception.
C22_EmptyScanCompletes ==
    /\ ~aborted
    /\ (lastOp.op = "on_scan_complete" /\ lastOp.found = 0) => error = "none"

\* The next and the previous operation of either program, as a key press.
Forward == KeyRight \/ OldKeyRight

Backward == KeyLeft \/ OldKeyLeft

\* C31: in sequential mode, on a non-empty catalog whose images all decode,
\* previous is the inverse of next: from the index of every reachable state,
\* next followed by previous, and previous followed by next, lead back to
\* that index.
C31_PrevInvertsNext ==
    (Catalog # <<>> /\ ~RandomMode /\ AllDecode(Catalog)) =>
        \A i \in -1..MaxPaths :
            i = Index =>
                /\ ~ENABLED (Forward /\ (ENABLED (Backward /\ Index' # i))')
                /\ ~ENABLED (Backward /\ (ENABLED (Forward /\ Index' # i))')

====
